---- MODULE Spec2Model ----
(***************************************************************************)
(* A model of the DNS forwarder in src/app/main.go: the message codec      *)
(* (header bit fields, label sequences with compression pointers, resource *)
(* records), the response builder, the static answer generator, the        *)
(* per-question forwarding loop and the server loop of main.               *)
(*                                                                         *)
(* Bytes are integers 0..255, a Go string or []byte is a sequence of       *)
(* bytes, Go's zero-based index i is position i+1 of the sequence.         *)
(***************************************************************************)
EXTENDS Integers, Sequences, FiniteSets, TLC

(***************************************************************************)
(* uint8 arithmetic                                                        *)
(***************************************************************************)
Bit(a, i) == (a \div (2 ^ i)) % 2

And8(a, b) ==
  Bit(a, 0) * Bit(b, 0) + 2 * Bit(a, 1) * Bit(b, 1)
  + 4 * Bit(a, 2) * Bit(b, 2) + 8 * Bit(a, 3) * Bit(b, 3)
  + 16 * Bit(a, 4) * Bit(b, 4) + 32 * Bit(a, 5) * Bit(b, 5)
  + 64 * Bit(a, 6) * Bit(b, 6) + 128 * Bit(a, 7) * Bit(b, 7)

Or8(a, b) == a + b - And8(a, b)

Shl8(a, n) == (a * (2 ^ n)) % 256

Shr8(a, n) == a \div (2 ^ n)

\* binary.BigEndian.PutUint16 / Uint16 / PutUint32
PutUint16(v) == << (v \div 256) % 256, v % 256 >>

Uint16(b) == b[1] * 256 + b[2]

PutUint32(v) ==
  << (v \div 16777216) % 256, (v \div 65536) % 256, (v \div 256) % 256, v % 256 >>

(***************************************************************************)
(* Program constants                                                       *)
(***************************************************************************)
A == 1
ClassIN == 1
QUERY == 0
UNIMPLEMENTED == 4
MaxLabelLen == 63
MaxNameLen == 255
HeaderLen == 12
PointerByte == 192
BufSize == 512
StaticTTL == 60
StaticIP == << 8, 8, 8, 8 >>

(***************************************************************************)
(* Header: 12 bytes with bit-field accessors (h is the byte array)         *)
(***************************************************************************)
ZeroHeader == [i \in 1..HeaderLen |-> 0]

SetByte(h, k, v) == [h EXCEPT ![k + 1] = v]

setId(h, id) == [h EXCEPT ![1] = PutUint16(id)[1], ![2] = PutUint16(id)[2]]

id(h) == Uint16(<< h[1], h[2] >>)

setQR(h, isReply) == SetByte(h, 2, Or8(h[3], Shl8(isReply, 7)))

OPCODE(h) == Shr8(And8(h[3], 120), 3)

setAA(h, isAuthoritativeAnswer) ==
  SetByte(h, 2, Or8(h[3], Shl8(isAuthoritativeAnswer, 2)))

setTC(h, isTruncated) == SetByte(h, 2, Or8(h[3], Shl8(isTruncated, 1)))

setRD(h, recursionDesired) == SetByte(h, 2, Or8(h[3], recursionDesired))

RD(h) == And8(h[3], 1)

setRA(h, recursionAvailable) ==
  SetByte(h, 3, Or8(h[4], Shl8(recursionAvailable, 7)))

setZ(h, val) == SetByte(h, 3, Or8(And8(h[4], 143), And8(val, 112)))

\* setRCODE that ORs the code in without clearing the old bits
setRCODEOrOnly(h, code) == SetByte(h, 3, Or8(h[4], And8(code, 15)))

setRCODE(h, code) == SetByte(h, 3, Or8(And8(h[4], 240), And8(code, 15)))

setQDCOUNT(h, count) ==
  [h EXCEPT ![5] = PutUint16(count)[1], ![6] = PutUint16(count)[2]]

QDCOUNT(h) == Uint16(<< h[5], h[6] >>)

setANCOUNT(h, count) ==
  [h EXCEPT ![7] = PutUint16(count)[1], ![8] = PutUint16(count)[2]]

ANCOUNT(h) == Uint16(<< h[7], h[8] >>)

(***************************************************************************)
(* Label codec                                                             *)
(***************************************************************************)
RECURSIVE encodeLabelsFrom(_, _, _)
\* the loop of encodeLabelSequence from label i on, acc the bytes so far
encodeLabelsFrom(labels, i, acc) ==
  IF i > Len(labels)
    THEN [err |-> "nil", bytes |-> acc]
    ELSE IF Len(labels[i]) > MaxLabelLen
      THEN [err |-> "LabelTooLong", bytes |-> << >>]
      ELSE encodeLabelsFrom(labels, i + 1,
                            acc \o << Len(labels[i]) % 256 >> \o labels[i])

\* encodeLabelSequence with the name limit off by one
encodeLabelSequenceOffByOne(labels) ==
  LET body == encodeLabelsFrom(labels, 1, << >>)
      full == body.bytes \o << 0 >>
  IN IF body.err # "nil"
       THEN body
       ELSE IF Len(full) >= MaxNameLen
         THEN [err |-> "NameTooLong", bytes |-> << >>]
         ELSE [err |-> "nil", bytes |-> full]

encodeLabelSequence(labels) ==
  LET body == encodeLabelsFrom(labels, 1, << >>)
      full == body.bytes \o << 0 >>
  IN IF body.err # "nil"
       THEN body
       ELSE IF Len(full) > MaxNameLen
         THEN [err |-> "NameTooLong", bytes |-> << >>]
         ELSE [err |-> "nil", bytes |-> full]

(***************************************************************************)
(* Go slices: a slice is [len, arr] with arr the backing array from the    *)
(* slice's start up to its capacity.  Indexing checks len, re-slicing      *)
(* checks cap.                                                             *)
(***************************************************************************)
Slice(bytes, backing) ==
  [len |-> Len(bytes),
   arr |-> bytes \o SubSeq(backing, Len(bytes) + 1, Len(backing))]

InLen(src, i) == i >= 0 /\ i < src.len

InCap(src, lo, hi) == 0 <= lo /\ lo <= hi /\ hi <= Len(src.arr)

\* extractBytes that forgets to advance the cursor
extractBytesNoAdvance(src, offset, length) ==
  IF InCap(src, offset, offset + length)
    THEN [err |-> "nil", bytes |-> SubSeq(src.arr, offset + 1, offset + length),
          head |-> offset]
    ELSE [err |-> "panic", bytes |-> << >>, head |-> offset]

\* extractBytes: src[offset : offset+length]
extractBytes(src, offset, length) ==
  IF InCap(src, offset, offset + length)
    THEN [err |-> "nil", bytes |-> SubSeq(src.arr, offset + 1, offset + length),
          head |-> offset + length]
    ELSE [err |-> "panic", bytes |-> << >>, head |-> offset]

extractUint16(src, offset) ==
  IF InLen(src, offset) /\ InLen(src, offset + 1)
    THEN [err |-> "nil", bytes |-> << src.arr[offset + 1], src.arr[offset + 2] >>,
          head |-> offset + 2]
    ELSE [err |-> "panic", bytes |-> << >>, head |-> offset]

\* extractUint32 that advances the cursor by 2 instead of 4
extractUint32ShortAdvance(src, offset) ==
  IF InLen(src, offset) /\ InLen(src, offset + 1)
     /\ InLen(src, offset + 2) /\ InLen(src, offset + 3)
    THEN [err |-> "nil",
          bytes |-> SubSeq(src.arr, offset + 1, offset + 4),
          head |-> offset + 2]
    ELSE [err |-> "panic", bytes |-> << >>, head |-> offset]

extractUint32(src, offset) ==
  IF InLen(src, offset) /\ InLen(src, offset + 1)
     /\ InLen(src, offset + 2) /\ InLen(src, offset + 3)
    THEN [err |-> "nil",
          bytes |-> SubSeq(src.arr, offset + 1, offset + 4),
          head |-> offset + 4]
    ELSE [err |-> "panic", bytes |-> << >>, head |-> offset]

(***************************************************************************)
(* Label position cache                                                    *)
(***************************************************************************)
EmptyMap == [x \in {} |-> 0]

EmptyCache == [labelMap |-> EmptyMap, positionMap |-> EmptyMap]

MapPut(m, k, v) == [x \in (DOMAIN m) \cup {k} |-> IF x = k THEN v ELSE m[x]]

CachePut(cache, label, position) ==
  [labelMap |-> MapPut(cache.labelMap, label, position),
   positionMap |-> MapPut(cache.positionMap, position, label)]

RECURSIVE allSubsequentLabelsFrom(_, _, _)
allSubsequentLabelsFrom(cache, head, labels) ==
  IF head \in DOMAIN cache.positionMap
    THEN allSubsequentLabelsFrom(cache,
                                 head + Len(cache.positionMap[head]) + 1,
                                 labels \o << cache.positionMap[head] >>)
    ELSE labels

\* allSubsequentLabels that returns the label at head alone
allSubsequentLabelsFirstOnly(cache, head) ==
  IF head \in DOMAIN cache.positionMap
    THEN << cache.positionMap[head] >>
    ELSE << >>

allSubsequentLabels(cache, head) == allSubsequentLabelsFrom(cache, head, << >>)

RECURSIVE decodeLabelsFrom(_, _, _, _)
\* the loop of decodeLabels with the cursor at head and labels read so far
decodeLabelsFrom(frame, head, cache, labels) ==
  IF ~InLen(frame, head)
    THEN [err |-> "panic", labels |-> labels, head |-> head, cache |-> cache]
  ELSE IF frame.arr[head + 1] = 0
    THEN [err |-> "nil", labels |-> labels, head |-> head + 1, cache |-> cache]
  ELSE IF frame.arr[head + 1] = PointerByte
    THEN IF ~InLen(frame, head + 1)
      THEN [err |-> "panic", labels |-> labels, head |-> head, cache |-> cache]
      ELSE LET referencedLabels ==
                 allSubsequentLabels(cache, frame.arr[head + 2])
           IN IF Len(referencedLabels) = 0
                THEN [err |-> "InvalidLabelReference", labels |-> labels,
                      head |-> head, cache |-> cache]
                ELSE [err |-> "nil", labels |-> labels \o referencedLabels,
                      head |-> head + 2, cache |-> cache]
  ELSE LET labelLen == frame.arr[head + 1]
           labelPosition == head
           x == extractBytes(frame, head + 1, labelLen)
       IN IF x.err # "nil"
            THEN [err |-> "panic", labels |-> labels, head |-> head + 1,
                  cache |-> cache]
            ELSE decodeLabelsFrom(frame, x.head,
                                  CachePut(cache, x.bytes, labelPosition),
                                  labels \o << x.bytes >>)

decodeLabels(frame, head, cache) == decodeLabelsFrom(frame, head, cache, << >>)

(***************************************************************************)
(* Messages                                                                *)
(***************************************************************************)
Message(c, h, qs, as) ==
  [cache |-> c, header |-> h, question |-> qs, answer |-> as,
   authority |-> << >>, additional |-> << >>]

NilMessage == Message(EmptyCache, ZeroHeader, << >>, << >>)

Question(name, type, class) == [QNAME |-> name, QTYPE |-> type, QCLASS |-> class]

RR(name, type, class, ttl, rdlength, rdata) ==
  [NAME |-> name, TYPE |-> type, CLASS |-> class, TTL |-> ttl,
   RDLENGTH |-> rdlength, RDATA |-> rdata]

\* question.setType/setClass, RR.setType/setClass/setTTL/setData
setType(r, t) ==
  IF "QNAME" \in DOMAIN r THEN [r EXCEPT !.QTYPE = PutUint16(t)]
                          ELSE [r EXCEPT !.TYPE = PutUint16(t)]

setClass(r, c) ==
  IF "QNAME" \in DOMAIN r THEN [r EXCEPT !.QCLASS = PutUint16(c)]
                          ELSE [r EXCEPT !.CLASS = PutUint16(c)]

setTTL(rr, ttl) == [rr EXCEPT !.TTL = PutUint32(ttl)]

setData(rr, data) ==
  [rr EXCEPT !.RDLENGTH = PutUint16(Len(data) % 65536), !.RDATA = data]

NewQuestion == Question(<< >>, << 0, 0 >>, << 0, 0 >>)

NewRR == RR(<< >>, << 0, 0 >>, << 0, 0 >>, << 0, 0, 0, 0 >>, << 0, 0 >>, << >>)

(***************************************************************************)
(* deserialize                                                             *)
(***************************************************************************)
DecodeState(e, h, c, items) == [err |-> e, head |-> h, cache |-> c, items |-> items]

RECURSIVE decodeQuestions(_, _, _, _, _)
\* the QUESTION loop of deserialize: n questions still to read
decodeQuestions(frame, head, cache, n, questions) ==
  IF n = 0
    THEN DecodeState("nil", head, cache, questions)
    ELSE
      LET l == decodeLabels(frame, head, cache)
          t == extractUint16(frame, l.head)
          c == extractUint16(frame, t.head)
      IN IF l.err # "nil" THEN DecodeState(l.err, l.head, l.cache, questions)
         ELSE IF t.err # "nil" THEN DecodeState(t.err, t.head, l.cache, questions)
         ELSE IF c.err # "nil" THEN DecodeState(c.err, c.head, l.cache, questions)
         ELSE decodeQuestions(frame, c.head, l.cache, n - 1,
                              Append(questions, Question(l.labels, t.bytes, c.bytes)))

RECURSIVE decodeAnswers(_, _, _, _, _)
\* the ANSWER loop of deserialize: n answers still to read
decodeAnswers(frame, head, cache, n, answers) ==
  IF n = 0
    THEN DecodeState("nil", head, cache, answers)
    ELSE
      LET l == decodeLabels(frame, head, cache)
          t == extractUint16(frame, l.head)
          c == extractUint16(frame, t.head)
          ttl == extractUint32(frame, c.head)
          rl == extractUint16(frame, ttl.head)
          rd == extractBytes(frame, rl.head, Uint16(rl.bytes))
      IN IF l.err # "nil" THEN DecodeState(l.err, l.head, l.cache, answers)
         ELSE IF t.err # "nil" THEN DecodeState(t.err, t.head, l.cache, answers)
         ELSE IF c.err # "nil" THEN DecodeState(c.err, c.head, l.cache, answers)
         ELSE IF ttl.err # "nil" THEN DecodeState(ttl.err, ttl.head, l.cache, answers)
         ELSE IF rl.err # "nil" THEN DecodeState(rl.err, rl.head, l.cache, answers)
         ELSE IF rd.err # "nil" THEN DecodeState(rd.err, rd.head, l.cache, answers)
         ELSE decodeAnswers(frame, rd.head, l.cache, n - 1,
                            Append(answers,
                                   RR(l.labels, t.bytes, c.bytes, ttl.bytes,
                                      rl.bytes, rd.bytes)))

\* a cache that was not emptied: it still holds the labels of a name decoded
\* from an earlier frame, "bc" at offset 12 and "d" at offset 15
staleLabelCache ==
  CachePut(CachePut(EmptyCache, << 98, 99 >>, 12), << 100 >>, 15)

\* the cache deserialize starts from: a new labelCache with empty maps
newLabelCache == EmptyCache

\* deserialize that also rejects a frame of exactly 12 bytes
deserializeOffByOne(frame) ==
  IF frame.len <= HeaderLen
    THEN [err |-> "MalformedHeader", message |-> NilMessage]
    ELSE
      LET header == SubSeq(frame.arr, 1, HeaderLen)
          qs == decodeQuestions(frame, HeaderLen, newLabelCache, QDCOUNT(header), << >>)
          as == decodeAnswers(frame, qs.head, qs.cache, ANCOUNT(header), << >>)
      IN IF qs.err # "nil" THEN [err |-> qs.err, message |-> NilMessage]
         ELSE IF as.err # "nil" THEN [err |-> as.err, message |-> NilMessage]
         ELSE [err |-> "nil",
               message |-> Message(as.cache, header, qs.items, as.items)]

\* err is "nil", "MalformedHeader", "InvalidLabelReference" or "panic" (a
\* run-time index or slice-bounds panic, which no caller recovers)
deserialize(frame) ==
  IF frame.len < HeaderLen
    THEN [err |-> "MalformedHeader", message |-> NilMessage]
    ELSE
      LET header == SubSeq(frame.arr, 1, HeaderLen)
          qs == decodeQuestions(frame, HeaderLen, newLabelCache, QDCOUNT(header), << >>)
          as == decodeAnswers(frame, qs.head, qs.cache, ANCOUNT(header), << >>)
      IN IF qs.err # "nil" THEN [err |-> qs.err, message |-> NilMessage]
         ELSE IF as.err # "nil" THEN [err |-> as.err, message |-> NilMessage]
         ELSE [err |-> "nil",
               message |-> Message(as.cache, header, qs.items, as.items)]

(***************************************************************************)
(* serialize                                                               *)
(***************************************************************************)
questionEntryLen(q) == Len(q.QNAME) + 4

rrEntryLen(rr) == Len(rr.NAME) + 10 + Len(rr.RDATA)

RECURSIVE questionLenOf(_)
questionLenOf(qs) ==
  IF qs = << >> THEN 0 ELSE questionEntryLen(Head(qs)) + questionLenOf(Tail(qs))

RECURSIVE answerLenOf(_)
answerLenOf(as) ==
  IF as = << >> THEN 0 ELSE rrEntryLen(Head(as)) + answerLenOf(Tail(as))

questionLen(m) == questionLenOf(m.question)

answerLen(m) == answerLenOf(m.answer)

totalLen(m) == Len(m.header) + questionLen(m) + answerLen(m)

RECURSIVE serializeQuestions(_, _, _)
serializeQuestions(qs, i, buf) ==
  IF i > Len(qs)
    THEN [err |-> "nil", bytes |-> buf]
    ELSE LET e == encodeLabelSequence(qs[i].QNAME)
         IN IF e.err # "nil"
              THEN [err |-> e.err, bytes |-> buf]
              ELSE serializeQuestions(qs, i + 1,
                     buf \o e.bytes \o qs[i].QTYPE \o qs[i].QCLASS)

RECURSIVE serializeAnswers(_, _, _)
serializeAnswers(as, i, buf) ==
  IF i > Len(as)
    THEN [err |-> "nil", bytes |-> buf]
    ELSE LET e == encodeLabelSequence(as[i].NAME)
         IN IF e.err # "nil"
              THEN [err |-> e.err, bytes |-> buf]
              ELSE serializeAnswers(as, i + 1,
                     buf \o e.bytes \o as[i].TYPE \o as[i].CLASS \o as[i].TTL
                         \o as[i].RDLENGTH \o as[i].RDATA)

\* on error the bytes are the partial buffer serialize returns with the error
serialize(m) ==
  LET q == serializeQuestions(m.question, 1, m.header)
  IN IF q.err # "nil" THEN q ELSE serializeAnswers(m.answer, 1, q.bytes)

(***************************************************************************)
(* Response construction                                                   *)
(***************************************************************************)
RECURSIVE copyQuestionsAsAsked(_, _, _, _)
\* copyQuestions that copies the request's questions whole
copyQuestionsAsAsked(initialMessage, i, n, questions) ==
  IF i >= n
    THEN questions
    ELSE copyQuestionsAsAsked(initialMessage, i + 1, n,
           Append(questions, initialMessage.question[i + 1]))

RECURSIVE copyQuestions(_, _, _, _)
\* the loop of createResponseMessage over i < QDCOUNT
copyQuestions(initialMessage, i, n, questions) ==
  IF i >= n
    THEN questions
    ELSE copyQuestions(initialMessage, i + 1, n,
           Append(questions,
                  setClass(setType([NewQuestion EXCEPT
                                      !.QNAME = initialMessage.question[i + 1].QNAME],
                                   A), ClassIN)))

\* createResponseHeader that starts from a new header, not from the request's
createResponseHeaderFresh(initialHeader) ==
  LET h5 == setZ(setRA(setTC(setAA(setQR(ZeroHeader, 1), 0), 0), 0), 0)
  IN IF OPCODE(initialHeader) = QUERY
       THEN setRCODE(h5, QUERY)
       ELSE setRCODE(h5, UNIMPLEMENTED)

createResponseHeader(initialHeader) ==
  LET h5 == setZ(setRA(setTC(setAA(setQR(initialHeader, 1), 0), 0), 0), 0)
  IN IF OPCODE(initialHeader) = QUERY
       THEN setRCODE(h5, QUERY)
       ELSE setRCODE(h5, UNIMPLEMENTED)

createResponseMessage(initialMessage) ==
  LET questions == copyQuestions(initialMessage, 0,
                                 QDCOUNT(initialMessage.header), << >>)
      header == setQDCOUNT(createResponseHeader(initialMessage.header),
                           Len(questions) % 65536)
  IN Message(EmptyCache, header, questions, << >>)

RECURSIVE staticAnswers(_, _, _, _)
\* the loop of addStaticAnswer over i < QDCOUNT
staticAnswers(m, i, n, answers) ==
  IF i >= n
    THEN answers
    ELSE staticAnswers(m, i + 1, n,
           Append(answers,
                  setData(setTTL(setClass(setType([NewRR EXCEPT
                                             !.NAME = m.question[i + 1].QNAME],
                                          A), ClassIN), StaticTTL), StaticIP)))

\* addStaticAnswer that leaves ANCOUNT as it was
addStaticAnswerNoCount(m) ==
  [m EXCEPT !.answer = staticAnswers(m, 0, QDCOUNT(m.header), m.answer)]

addStaticAnswer(m) ==
  LET answers == staticAnswers(m, 0, QDCOUNT(m.header), m.answer)
  IN [m EXCEPT !.answer = answers,
               !.header = setANCOUNT(m.header, Len(answers) % 65536)]

(***************************************************************************)
(* forwardResolve: the query built for one question                        *)
(***************************************************************************)
\* upstreamQuery that does not ask for recursion
upstreamQueryNoRD(q, txid) ==
  LET h == setQDCOUNT(
             setZ(setRA(setTC(setAA(setQR(setId(ZeroHeader, txid), 0), 0), 0), 0), 0),
             1)
  IN Message(EmptyCache, h, << q >>, << >>)

upstreamQuery(q, txid) ==
  LET h == setQDCOUNT(
             setZ(setRD(setRA(setTC(setAA(setQR(setId(ZeroHeader, txid), 0), 0), 0), 0), 1), 0),
             1)
  IN Message(EmptyCache, h, << q >>, << >>)

(***************************************************************************)
(* Bounds of the model                                                     *)
(***************************************************************************)
\* inbound datagrams the server loop reads before the model stops
MaxRequests == 2
\* labels per name in the inputs of the codec operations
MaxLabels == 3

(***************************************************************************)
(* Inputs: wire images written as RFC 1035 4.1 lays them out               *)
(***************************************************************************)
RECURSIVE WireName(_)
WireName(labels) ==
  IF labels = << >> THEN << 0 >>
  ELSE << Len(Head(labels)) >> \o Head(labels) \o WireName(Tail(labels))

\* a compression pointer to offset p (RFC 1035 4.1.4: 11 + 14-bit offset)
WirePointer(p) == << 192 + (p \div 256), p % 256 >>

WireHeader(txid, b2, b3, qd, an, ns, ar) ==
  PutUint16(txid) \o << b2, b3 >> \o PutUint16(qd) \o PutUint16(an)
  \o PutUint16(ns) \o PutUint16(ar)

Zeros(n) == [i \in 1..n |-> 0]

\* a label of n bytes whose content includes the bytes 192 and 0
LabelOf(n) ==
  [i \in 1..n |-> IF i % 3 = 2 THEN 192 ELSE IF i % 3 = 0 THEN 0 ELSE 97 + (n % 26)]

NameA == << << 97 >> >>
NameBCD == << << 98, 99 >>, << 100 >> >>
NameAD == << << 97 >>, << 100 >> >>
NameLong == << LabelOf(64) >>

\* 63+63+63+61 bytes of labels: an encoding of exactly 255 bytes
Name255 == << LabelOf(63), LabelOf(63), LabelOf(63), LabelOf(61) >>

\* one byte more: an encoding of 256 bytes with no label over 63 bytes
Name256 == << LabelOf(63), LabelOf(63), LabelOf(63), LabelOf(62) >>

\* an encoding over 255 bytes that also has a label over 63 bytes
Name257 == << LabelOf(63), LabelOf(64), LabelOf(63), LabelOf(62) >>

\* one header per OPCODE, with the flag, Z, RCODE and NSCOUNT bits varied
OpcodeFrames ==
  { WireHeader(4660 + o, 128 * (o % 2) + 8 * o + (o % 8), (o * 37 + 5) % 256,
               1, 0, o % 2, (o \div 2) % 2)
    \o WireName(NameBCD) \o PutUint16(A) \o PutUint16(ClassIN) : o \in 0..15 }

StdHeader(qd, an) == WireHeader(4660, 1, 0, qd, an, 0, 0)

BodyFrames ==
  { StdHeader(0, 0),
    StdHeader(1, 0) \o WireName(NameA) \o PutUint16(A) \o PutUint16(ClassIN),
    StdHeader(1, 0) \o WireName(NameBCD) \o PutUint16(15) \o PutUint16(3),
    StdHeader(2, 0) \o WireName(NameBCD) \o PutUint16(A) \o PutUint16(ClassIN)
                    \o WireName(NameA) \o PutUint16(28) \o PutUint16(ClassIN),
    StdHeader(2, 0) \o WireName(NameBCD) \o PutUint16(A) \o PutUint16(ClassIN)
                    \o WirePointer(12) \o PutUint16(A) \o PutUint16(ClassIN),
    StdHeader(2, 0) \o WireName(NameBCD) \o PutUint16(A) \o PutUint16(ClassIN)
                    \o << 1, 97 >> \o WirePointer(15) \o PutUint16(A) \o PutUint16(ClassIN),
    StdHeader(1, 0) \o WireName(NameLong) \o PutUint16(A) \o PutUint16(ClassIN),
    StdHeader(1, 0) \o WireName(Name255) \o PutUint16(A) \o PutUint16(ClassIN),
    StdHeader(0, 1) \o WireName(NameA) \o PutUint16(A) \o PutUint16(ClassIN)
                    \o PutUint32(300) \o PutUint16(4) \o << 1, 2, 3, 4 >> }

MalformedFrames ==
  { << 18, 52, 1, 0, 0 >>,
    StdHeader(1, 0) \o WirePointer(5) \o PutUint16(A) \o PutUint16(ClassIN),
    StdHeader(1, 0) \o WirePointer(12) \o PutUint16(A) \o PutUint16(ClassIN),
    StdHeader(1, 0) \o WireName(NameA) \o << 0 >>,
    StdHeader(2, 0) \o WireName(NameA) \o PutUint16(A) \o PutUint16(ClassIN),
    StdHeader(0, 1) \o WireName(NameA) \o PutUint16(A) \o PutUint16(ClassIN)
                    \o PutUint32(300) \o PutUint16(4) \o << 1, 2 >> }

\* a request with QR, AA, TC, RA, Z and RCODE bits set, RD clear, OPCODE 15,
\* an answer of its own and nonzero NSCOUNT and ARCOUNT
FlaggedFrame ==
  WireHeader(48879, 254, 255, 1, 1, 1, 1)
  \o WireName(NameA) \o PutUint16(A) \o PutUint16(ClassIN)
  \o WirePointer(12) \o PutUint16(A) \o PutUint16(ClassIN)
  \o PutUint32(300) \o PutUint16(4) \o << 1, 2, 3, 4 >>

ClientFrames == BodyFrames \cup MalformedFrames \cup { FlaggedFrame }

\* the inbound datagrams: every frame from the first client, and two of them
\* from the second one as well
ClientDatagrams ==
  { << f, "client1" >> : f \in ClientFrames }
  \cup { << StdHeader(1, 0) \o WireName(NameA) \o PutUint16(A) \o PutUint16(ClassIN),
            "client2" >>,
          << StdHeader(1, 0) \o WirePointer(12) \o PutUint16(A) \o PutUint16(ClassIN),
            "client2" >> }

\* what rand.IntN(math.MaxUint16) may return: a value of 0..65534
QueryIds == { 4660, 65534 }

ReplyKinds == { "empty", "one", "two", "badref", "short", "tiny" }

\* the datagram an upstream resolver returns for the query datagram q
ReplyFrame(q, kind) ==
  LET body == SubSeq(q, HeaderLen + 1, Len(q))
      hdr(an) == << q[1], q[2], 129, 128 >> \o PutUint16(1) \o PutUint16(an)
                 \o PutUint16(0) \o PutUint16(0)
      rr(name, ip) == name \o PutUint16(A) \o PutUint16(ClassIN) \o PutUint32(300)
                      \o PutUint16(4) \o ip
      first == << Len(body) % 256, q[2] % 2, 2, 1 >>
  IN CASE kind = "empty" -> hdr(0) \o body
       [] kind = "one" -> hdr(1) \o body \o rr(WirePointer(12), first)
       [] kind = "two" -> hdr(2) \o body \o rr(WirePointer(12), first)
                          \o rr(<< 1, 119 >> \o WirePointer(12), << 10, 0, 0, 2 >>)
       [] kind = "badref" -> hdr(1) \o body \o rr(WirePointer(3), first)
       [] kind = "short" -> hdr(1) \o body \o WirePointer(12) \o PutUint16(A)
       [] OTHER -> << q[1], q[2], 129 >>

(***************************************************************************)
(* Inputs of the codec operations                                          *)
(***************************************************************************)
\* questions and resource records per message in the codec inputs
MaxEntries == 2

LabelLens == { 1, 61, 62, 63, 64 }

Labels == { LabelOf(n) : n \in LabelLens }

SeqsUpTo(S, n) == UNION { [1..k -> S] : k \in 0..n }

InputNames == SeqsUpTo(Labels, MaxLabels) \cup { Name255, Name256, Name257 }

InputQuestions ==
  { Question(NameA, PutUint16(A), PutUint16(ClassIN)),
    Question(NameBCD, PutUint16(15), PutUint16(3)),
    Question(Name255, PutUint16(255), PutUint16(255)),
    Question(Name256, PutUint16(A), PutUint16(ClassIN)),
    Question(NameLong, PutUint16(A), PutUint16(ClassIN)) }

InputRRs ==
  { RR(NameA, PutUint16(A), PutUint16(ClassIN), PutUint32(60), PutUint16(4), StaticIP),
    RR(NameBCD, PutUint16(5), PutUint16(ClassIN), << 255, 255, 255, 255 >>,
       PutUint16(0), << >>),
    RR(<< >>, PutUint16(16), PutUint16(3), PutUint32(0), PutUint16(3),
       << 192, 12, 0 >>) }

InputMessages ==
  { Message(EmptyCache,
            WireHeader(4660, f[1], f[2], Len(qs), Len(as), f[3], f[3]), qs, as) :
      f \in { << 1, 0, 0 >>, << 255, 255, 1 >> },
      qs \in SeqsUpTo(InputQuestions, MaxEntries),
      as \in SeqsUpTo(InputRRs, MaxEntries) }

NameGoogleCom == << << 103, 111, 111, 103, 108, 101 >>, << 99, 111, 109 >> >>

\* a frame whose last question names its labels by a compression pointer:
\* an optional first question that pushes the rest beyond offset 255, the
\* question with the literal name target, and the question whose name is the
\* literal labels prefix followed by a pointer to the j-th label of target
PointerInput(pad, target, j, prefix) ==
  LET lead == IF pad THEN WireName(Name255) \o PutUint16(A) \o PutUint16(ClassIN)
                     ELSE << >>
      at == HeaderLen + Len(lead)
      pj == at + Len(WireName(SubSeq(target, 1, j - 1))) - 1
      literal == WireName(prefix)
  IN [kind |-> "frame", target |-> target, j |-> j, prefix |-> prefix, pj |-> pj,
      nq |-> IF pad THEN 3 ELSE 2,
      frame |-> StdHeader(IF pad THEN 3 ELSE 2, 0) \o lead
                \o WireName(target) \o PutUint16(A) \o PutUint16(ClassIN)
                \o SubSeq(literal, 1, Len(literal) - 1) \o WirePointer(pj)
                \o PutUint16(28) \o PutUint16(3)]

PointerInputs ==
  { PointerInput(pad, target, j, prefix) :
      pad \in BOOLEAN,
      target \in { NameGoogleCom, NameBCD, << LabelOf(3), LabelOf(2), LabelOf(1) >> },
      j \in 1..3,
      prefix \in { << >>, << << 119, 119, 119 >> >>, NameAD } }

\* a frame whose second question has a name that starts with the byte b, of
\* 192 or more, followed by the byte 12, with room behind the questions for
\* b more bytes
HighBitInput(b) ==
  [kind |-> "frame", target |-> NameBCD, j |-> 1, prefix |-> << >>,
   pj |-> (b - 192) * 256 + 12, nq |-> 2,
   frame |-> StdHeader(2, 0) \o WireName(NameBCD) \o PutUint16(A) \o PutUint16(ClassIN)
             \o << b, 12 >> \o PutUint16(28) \o PutUint16(3) \o Zeros(260)]

HighBitInputs == { HighBitInput(b) : b \in 192..255 }

\* frames whose first name is or ends in a pointer to offset at: the pointer
\* itself, an offset behind it, the label of a later question, or the label
\* "a" that precedes the pointer in the same name
BackwardOnlyInput(prefix, at, target) ==
  LET literal == WireName(prefix)
  IN [kind |-> "frame", target |-> target, j |-> 1, prefix |-> prefix, pj |-> at,
      nq |-> 1,
      frame |-> StdHeader(2, 0) \o SubSeq(literal, 1, Len(literal) - 1)
                \o WirePointer(at) \o PutUint16(A) \o PutUint16(ClassIN)
                \o WireName(NameBCD) \o PutUint16(A) \o PutUint16(ClassIN)]

\* the question bc.d at offset 12, a second question named "a" (offset 22)
\* followed by a pointer to offset 12, and a third question whose name is
\* the literal labels prefix followed by a pointer to offset 22
ChainedInput(prefix) ==
  LET literal == WireName(prefix)
  IN [kind |-> "frame", target |-> NameA, j |-> 1, prefix |-> prefix, pj |-> 22,
      nq |-> 3,
      frame |-> StdHeader(3, 0)
                \o WireName(NameBCD) \o PutUint16(A) \o PutUint16(ClassIN)
                \o << 1, 97 >> \o WirePointer(12) \o PutUint16(A) \o PutUint16(ClassIN)
                \o SubSeq(literal, 1, Len(literal) - 1) \o WirePointer(22)
                \o PutUint16(A) \o PutUint16(ClassIN)]

ChainedInputs == { ChainedInput(<< >>), ChainedInput(<< << 119, 119, 119 >> >>) }

BackwardOnlyInputs ==
  { BackwardOnlyInput(<< >>, 12, << >>),
    BackwardOnlyInput(<< >>, 13, << >>),
    BackwardOnlyInput(<< >>, 18, << >>),
    BackwardOnlyInput(<< >>, 21, << >>),
    BackwardOnlyInput(NameA, 14, << >>),
    BackwardOnlyInput(NameA, 20, << >>),
    BackwardOnlyInput(NameA, 23, << >>),
    BackwardOnlyInput(NameA, 12, NameA) }

\* the question bc.d at offset 12 (labels at 12 and 15, terminator at 17) and
\* a second question whose name is a pointer, at offset 22, to offset p
PointerTo(p) ==
  StdHeader(2, 0) \o WireName(NameBCD) \o PutUint16(A) \o PutUint16(ClassIN)
  \o WirePointer(p) \o PutUint16(A) \o PutUint16(ClassIN)

\* offsets with no label: in the header, inside a label, at the terminator,
\* in the fixed fields, at the pointer itself, behind it, behind the frame
UnlabelledOffsets == { 0, 5, 11, 13, 14, 16, 17, 18, 22, 23, 24, 27, 28, 255,
                       256, 300, 16383 }

\* frames whose last name is or ends in a pointer to an offset with no
\* label (behind the label "a" at offset 22 the pointer is at offset 24),
\* the last one to the offset of an earlier pointer
InvalidRefFrames ==
  { PointerTo(p) : p \in UnlabelledOffsets }
  \cup { StdHeader(2, 0) \o WireName(NameBCD) \o PutUint16(A) \o PutUint16(ClassIN)
          \o << 1, 97 >> \o WirePointer(p) \o PutUint16(A) \o PutUint16(ClassIN) :
            p \in { 13, 24, 26 } }
  \cup { StdHeader(3, 0) \o WireName(NameBCD) \o PutUint16(A) \o PutUint16(ClassIN)
          \o WirePointer(12) \o PutUint16(A) \o PutUint16(ClassIN)
          \o WirePointer(22) \o PutUint16(A) \o PutUint16(ClassIN) }

\* every proper prefix of a frame with a question and an answer: the empty
\* datagram, cuts inside the header and cuts inside each later field
TruncatedFrames ==
  { SubSeq(FlaggedFrame, 1, n) : n \in 0..(Len(FlaggedFrame) - 1) }

\* requests with every value of the flags byte that holds QR, OPCODE, AA, TC
\* and RD, and several values of the byte that holds RA, Z and RCODE
RequestFrames ==
  { WireHeader(4660, b2, b3, 1, 0, b2 % 2, 0)
    \o WireName(NameBCD) \o PutUint16(15) \o PutUint16(3) :
      b2 \in 0..255, b3 \in { 0, 5, 250, 255 } }
  \cup OpcodeFrames \cup BodyFrames \cup MalformedFrames \cup TruncatedFrames
  \cup InvalidRefFrames

CodecInputs ==
  { [kind |-> "labels", labels |-> n] : n \in InputNames }
  \cup { [kind |-> "request", frame |-> f] : f \in RequestFrames }
  \cup { [kind |-> "message", message |-> m] : m \in InputMessages }
  \cup { i \in PointerInputs : i.j <= Len(i.target) }
  \cup HighBitInputs
  \cup BackwardOnlyInputs
  \cup ChainedInputs

(***************************************************************************)
(* State                                                                   *)
(***************************************************************************)
VARIABLES
  pc,           \* where main is: "read" (ReadFromUDP of the listening socket),
                \* "await" (ReadFromUDP of the resolver socket), "crashed"
                \* (a panic), "stopped" (the loop was left), or "codec"
                \* when only the codec operations are exercised
  resolverConn, \* TRUE when main was started with --resolver
  buf,          \* main's receive buffer of 512 bytes
  size,         \* main: length of the datagram last read into buf
  source,       \* main: address the datagram last read came from
  served,       \* inbound datagrams read so far
  request,      \* incomingMessage of the current iteration
  response,     \* response of the current iteration
  qi,           \* forwardResolve: index of the question being resolved
  answers,      \* forwardResolve: answers accumulated
  sentQueries,  \* datagrams written to the resolver socket in this iteration
  repliesRead,  \* datagrams read from the resolver socket in this iteration
                \* that deserialize accepted
  result,       \* how the last iteration ended
  outbox,       \* the datagram written to the client in the last iteration
  dest,         \* the address that datagram was written to
  stage,        \* codec operations: what was applied to input so far
  input,        \* codec operations: the input
  wire,         \* codec operations: result of the encoding
  decoded       \* codec operations: result of the decoding

vars == << pc, resolverConn, buf, size, source, served, request, response, qi,
           answers, sentQueries, repliesRead, result, outbox, dest, stage, input,
           wire, decoded >>

serverVars == << pc, resolverConn, buf, size, source, served, request, response,
                 qi, answers, sentQueries, repliesRead, result, outbox, dest >>

codecVars == << stage, input, wire, decoded >>

(***************************************************************************)
(* The server loop of main                                                 *)
(***************************************************************************)
CodecIdle ==
  /\ stage = "off" /\ input = << >> /\ wire = << >> /\ decoded = << >>

InitServer ==
  /\ pc = "read"
  /\ resolverConn \in BOOLEAN
  /\ buf = Zeros(BufSize)
  /\ size = 0
  /\ source = "none"
  /\ served = 0
  /\ request = NilMessage
  /\ response = NilMessage
  /\ qi = 0
  /\ answers = << >>
  /\ sentQueries = << >>
  /\ repliesRead = << >>
  /\ result = "none"
  /\ outbox = << >>
  /\ dest = "none"

Init == InitServer /\ CodecIdle

\* the iteration ends without a datagram for the client
Drop(why, resp) ==
  /\ pc' = IF why = "panic" THEN "crashed" ELSE "read"
  /\ result' = why
  /\ outbox' = << >>
  /\ dest' = "none"
  /\ response' = resp

\* Reply that writes to the address of the datagram read one iteration before
ReplyToLast(resp) ==
  LET serialized == serialize(resp)
  IN IF serialized.err # "nil"
       THEN Drop("serialize failed", resp)
       ELSE \E sent \in BOOLEAN :
              IF sent
                THEN /\ pc' = "read"
                     /\ result' = "sent"
                     /\ outbox' = serialized.bytes
                     /\ dest' = source
                     /\ response' = resp
                ELSE Drop("send failed", resp)

\* main, from response.serialize() to the end of the iteration
Reply(resp) ==
  LET serialized == serialize(resp)
  IN IF serialized.err # "nil"
       THEN Drop("serialize failed", resp)
       ELSE \E sent \in BOOLEAN :
              IF sent
                THEN /\ pc' = "read"
                     /\ result' = "sent"
                     /\ outbox' = serialized.bytes
                     /\ dest' = source'
                     /\ response' = resp
                ELSE Drop("send failed", resp)

\* forwardResolve from the top of its loop with question i next, and the
\* rest of main's iteration once it returns
ForwardFrom(resp, i, acc, sent, replies) ==
  /\ answers' = acc
  /\ repliesRead' = replies
  /\ qi' = i
  /\ IF i > Len(resp.question)
       THEN /\ sentQueries' = sent
            /\ Reply([resp EXCEPT !.answer = acc,
                                  !.header = setANCOUNT(resp.header, Len(acc) % 65536)])
       ELSE \E txid \in QueryIds :
              LET serialized == serialize(upstreamQuery(resp.question[i], txid))
              IN IF serialized.err # "nil"
                   THEN /\ sentQueries' = sent
                        /\ Drop("forward: serialize failed", resp)
                   ELSE \E written \in BOOLEAN :
                          IF written
                            THEN /\ sentQueries' = Append(sent, serialized.bytes)
                                 /\ pc' = "await"
                                 /\ result' = "forwarding"
                                 /\ outbox' = << >>
                                 /\ dest' = "none"
                                 /\ response' = resp
                            ELSE /\ sentQueries' = sent
                                 /\ Drop("forward: write failed", resp)

\* one iteration of main's loop, up to its end or to the first read of the
\* resolver socket
Receive(frame, from) ==
  /\ pc = "read"
  /\ served < MaxRequests
  /\ served' = served + 1
  /\ buf' = frame \o SubSeq(buf, Len(frame) + 1, BufSize)
  /\ size' = Len(frame)
  /\ source' = from
  /\ UNCHANGED << resolverConn, codecVars >>
  /\ LET incomingFrame == [len |-> Len(frame), arr |-> buf']
         incoming == deserialize(incomingFrame)
     IN IF incoming.err # "nil"
          THEN /\ request' = NilMessage
               /\ qi' = 0 /\ answers' = << >>
               /\ sentQueries' = << >> /\ repliesRead' = << >>
               /\ Drop(IF incoming.err = "panic" THEN "panic" ELSE "parse failed",
                       NilMessage)
          ELSE /\ request' = incoming.message
               /\ IF resolverConn
                    THEN ForwardFrom(createResponseMessage(incoming.message),
                                     1, << >>, << >>, << >>)
                    ELSE /\ qi' = 0 /\ answers' = << >>
                         /\ sentQueries' = << >> /\ repliesRead' = << >>
                         /\ Reply(addStaticAnswer(createResponseMessage(incoming.message)))

\* ResolverReply that keeps only the answers of the last reply
ResolverReplyOverwrite(frame) ==
  /\ pc = "await"
  /\ UNCHANGED << resolverConn, buf, size, source, served, request, codecVars >>
  /\ LET incomingFrame == [len |-> Len(frame),
                           arr |-> frame \o Zeros(BufSize - Len(frame))]
         resolverResponse == deserialize(incomingFrame)
     IN IF resolverResponse.err # "nil"
          THEN /\ UNCHANGED << qi, answers, sentQueries, repliesRead >>
               /\ Drop(IF resolverResponse.err = "panic" THEN "panic"
                       ELSE "forward: parse failed", response)
          ELSE ForwardFrom(response, qi + 1,
                           resolverResponse.message.answer,
                           sentQueries,
                           Append(repliesRead, frame))

\* conn.ReadFromUDP in forwardResolve returns the datagram frame, and the
\* iteration goes on from there
ResolverReply(frame) ==
  /\ pc = "await"
  /\ UNCHANGED << resolverConn, buf, size, source, served, request, codecVars >>
  /\ LET incomingFrame == [len |-> Len(frame),
                           arr |-> frame \o Zeros(BufSize - Len(frame))]
         resolverResponse == deserialize(incomingFrame)
     IN IF resolverResponse.err # "nil"
          THEN /\ UNCHANGED << qi, answers, sentQueries, repliesRead >>
               /\ Drop(IF resolverResponse.err = "panic" THEN "panic"
                       ELSE "forward: parse failed", response)
          ELSE ForwardFrom(response, qi + 1,
                           answers \o resolverResponse.message.answer,
                           sentQueries,
                           Append(repliesRead, frame))

\* conn.ReadFromUDP in forwardResolve returns an error
ResolverReadFails ==
  /\ pc = "await"
  /\ UNCHANGED << resolverConn, buf, size, source, served, request, codecVars,
                  qi, answers, sentQueries, repliesRead >>
  /\ Drop("forward: read failed", response)

\* udpConn.ReadFromUDP in main returns an error: the loop is left
ListenReadFails ==
  /\ pc = "read"
  /\ pc' = "stopped"
  /\ UNCHANGED << resolverConn, buf, size, source, served, request, response, qi,
                  answers, sentQueries, repliesRead, result, outbox, dest,
                  codecVars >>

ClientSends == \E d \in ClientDatagrams : Receive(d[1], d[2])

ResolverSends ==
  \E k \in 1..Len(sentQueries), kind \in ReplyKinds :
    ResolverReply(ReplyFrame(sentQueries[k], kind))

Next == ClientSends \/ ResolverSends \/ ResolverReadFails \/ ListenReadFails

Spec == Init /\ [][Next]_vars

(***************************************************************************)
(* The codec operations applied to one input                               *)
(***************************************************************************)
ServerIdle ==
  /\ pc = "codec"
  /\ resolverConn = FALSE
  /\ buf = << >>
  /\ size = 0
  /\ source = "none"
  /\ served = 0
  /\ request = NilMessage
  /\ response = NilMessage
  /\ qi = 0
  /\ answers = << >>
  /\ sentQueries = << >>
  /\ repliesRead = << >>
  /\ result = "none"
  /\ outbox = << >>
  /\ dest = "none"

InitCodec ==
  /\ ServerIdle
  /\ input \in CodecInputs
  /\ stage = input.kind
  /\ wire = << >>
  /\ decoded = << >>

\* a slice whose capacity is its length
Exact(bytes) == [len |-> Len(bytes), arr |-> bytes]

EncodeLabels ==
  /\ stage = "labels"
  /\ wire' = encodeLabelSequence(input.labels)
  /\ stage' = "encoded"
  /\ UNCHANGED << input, decoded, serverVars >>

DecodeLabels ==
  /\ stage = "encoded"
  /\ wire.err = "nil"
  /\ decoded' = decodeLabels(Exact(wire.bytes), 0, EmptyCache)
  /\ stage' = "decoded"
  /\ UNCHANGED << input, wire, serverVars >>

Serialize ==
  /\ stage = "message"
  /\ wire' = serialize(input.message)
  /\ stage' = "serialized"
  /\ UNCHANGED << input, decoded, serverVars >>

Deserialize ==
  /\ stage = "serialized"
  /\ wire.err = "nil"
  /\ decoded' = deserialize(Exact(wire.bytes))
  /\ stage' = "deserialized"
  /\ UNCHANGED << input, wire, serverVars >>

\* deserialize up to the name of the last question of input.frame, and
\* decodeLabels on that name
ResolvePointer ==
  /\ stage = "frame"
  /\ LET frame == Exact(input.frame)
         before == decodeQuestions(frame, HeaderLen, EmptyCache, input.nq - 1, << >>)
         name == decodeLabels(frame, before.head, before.cache)
     IN /\ wire' = before
        /\ decoded' = name
  /\ stage' = "resolved"
  /\ UNCHANGED << input, serverVars >>

\* deserialize and createResponseMessage on input.frame
BuildResponse ==
  /\ stage = "request"
  /\ LET incoming == deserialize(Exact(input.frame))
     IN /\ decoded' = incoming
        /\ IF incoming.err = "nil"
             THEN /\ wire' = createResponseMessage(incoming.message)
                  /\ stage' = "responded"
             ELSE /\ wire' = << >>
                  /\ stage' = "rejected"
  /\ UNCHANGED << input, serverVars >>

NextCodec ==
  \/ EncodeLabels
  \/ DecodeLabels
  \/ Serialize
  \/ Deserialize
  \/ ResolvePointer
  \/ BuildResponse

SpecCodec == InitCodec /\ [][NextCodec]_vars

(***************************************************************************)
(* Properties.  The fields of a header are read here by plain arithmetic   *)
(* on the layout of RFC 1035 4.1.1.                                        *)
(***************************************************************************)
FieldID(h) == h[1] * 256 + h[2]
FieldQR(h) == h[3] \div 128
FieldOPCODE(h) == (h[3] \div 8) % 16
FieldAA(h) == (h[3] \div 4) % 2
FieldTC(h) == (h[3] \div 2) % 2
FieldRD(h) == h[3] % 2
FieldRA(h) == h[4] \div 128
FieldZ(h) == (h[4] \div 16) % 8
FieldRCODE(h) == h[4] % 16
FieldQDCOUNT(h) == h[5] * 256 + h[6]
FieldANCOUNT(h) == h[7] * 256 + h[8]
FieldNSCOUNT(h) == h[9] * 256 + h[10]
FieldARCOUNT(h) == h[11] * 256 + h[12]

RECURSIVE EncodedLen(_)
\* length bytes, label bytes and the zero terminator
EncodedLen(labels) ==
  IF labels = << >> THEN 1 ELSE 1 + Len(Head(labels)) + EncodedLen(Tail(labels))

HasLongLabel(labels) == \E i \in 1..Len(labels) : Len(labels[i]) > 63

ValidName(labels) ==
  /\ \A i \in 1..Len(labels) : Len(labels[i]) >= 1 /\ Len(labels[i]) <= 63
  /\ EncodedLen(labels) <= 255

ValidMessage(m) ==
  /\ FieldQDCOUNT(m.header) = Len(m.question)
  /\ FieldANCOUNT(m.header) = Len(m.answer)
  /\ \A i \in 1..Len(m.question) : ValidName(m.question[i].QNAME)
  /\ \A i \in 1..Len(m.answer) :
       /\ ValidName(m.answer[i].NAME)
       /\ m.answer[i].RDLENGTH[1] * 256 + m.answer[i].RDLENGTH[2]
            = Len(m.answer[i].RDATA)

\* C1: for a message whose counts match its sections, whose names respect
\* the label limits and whose RDLENGTHs match their RDATA, serialize succeeds
\* and deserialize of its result succeeds with the same 12 header bytes, the
\* same questions and the same answers in the same order.
C1_RoundTrip ==
  /\ (stage = "serialized" /\ ValidMessage(input.message)) => wire.err = "nil"
  /\ (stage = "deserialized" /\ ValidMessage(input.message)) =>
       /\ decoded.err = "nil"
       /\ decoded.message.header = input.message.header
       /\ decoded.message.question = input.message.question
       /\ decoded.message.answer = input.message.answer

C1_Witness ==
  /\ stage = "deserialized"
  /\ ValidMessage(input.message)
  /\ Len(input.message.question) = 2
  /\ Len(input.message.answer) = 2
  /\ input.message.question[2].QNAME = Name255
  /\ input.message.answer[1].RDATA = << 192, 12, 0 >>
  /\ decoded.message.answer = input.message.answer

\* C2: for a label sequence within the limits (the root included),
\* encodeLabelSequence succeeds and decodeLabels, run with an empty cache at
\* the start of the encoding, returns the same labels without error and
\* leaves the cursor just past the zero terminator.
C2_LabelRoundTrip ==
  /\ (stage = "encoded" /\ ValidName(input.labels)) => wire.err = "nil"
  /\ (stage = "decoded" /\ ValidName(input.labels)) =>
       /\ decoded.err = "nil"
       /\ decoded.labels = input.labels
       /\ decoded.head = EncodedLen(input.labels)
       /\ decoded.head = Len(wire.bytes)

C2_Witness ==
  /\ stage = "decoded"
  /\ input.labels = Name255
  /\ decoded.labels = Name255
  /\ decoded.head = 255

\* C3: when a name was decoded literally as zero-terminated labels with its
\* j-th label at offset pj, a later compression pointer to pj decodes to the
\* labels j..k of that name, appended after the literal labels that precede
\* the pointer, and moves the cursor 2 bytes past the start of the pointer.
C3_PointerResolves ==
  (/\ stage = "resolved"
   /\ wire.err = "nil"
   /\ input.pj \in DOMAIN wire.cache.positionMap
   /\ wire.cache.positionMap[input.pj] = input.target[input.j]) =>
    /\ decoded.err = "nil"
    /\ decoded.labels
         = input.prefix \o SubSeq(input.target, input.j, Len(input.target))
    /\ decoded.head = wire.head + (EncodedLen(input.prefix) - 1) + 2

\* C3 holds when the target offset fits one byte, as in the example with
\* "google" at offset 12 and "com" at offset 19
C3_OneByteOffsets ==
  (stage = "resolved" /\ input.pj <= 255 /\ input.target # << >>) =>
    /\ decoded.err = "nil"
    /\ decoded.labels
         = input.prefix \o SubSeq(input.target, input.j, Len(input.target))
    /\ decoded.head = wire.head + (EncodedLen(input.prefix) - 1) + 2

\* the error encodeLabelSequence gives a name: the label check comes first
NameError(labels) ==
  IF HasLongLabel(labels) THEN "LabelTooLong"
  ELSE IF EncodedLen(labels) > 255 THEN "NameTooLong" ELSE "nil"

NamesOf(m) ==
  [i \in 1..Len(m.question) |-> m.question[i].QNAME]
  \o [i \in 1..Len(m.answer) |-> m.answer[i].NAME]

RECURSIVE FirstError(_)
FirstError(names) ==
  IF names = << >> THEN "nil"
  ELSE IF NameError(Head(names)) # "nil" THEN NameError(Head(names))
  ELSE FirstError(Tail(names))

\* C4 as stated: label-too-long whenever a label is over 63 bytes and
\* name-too-long whenever the encoding is over 255 bytes, for
\* encodeLabelSequence and for serialize; success at 63 and at 255 bytes;
\* nothing returned on failure.
C4_LengthLimits ==
  /\ stage = "encoded" =>
       /\ HasLongLabel(input.labels) => wire.err = "LabelTooLong"
       /\ EncodedLen(input.labels) > 255 => wire.err = "NameTooLong"
       /\ (~HasLongLabel(input.labels) /\ EncodedLen(input.labels) <= 255) =>
            wire.err = "nil"
       /\ wire.err # "nil" => wire.bytes = << >>
  /\ stage = "serialized" =>
       /\ (\E i \in 1..Len(NamesOf(input.message)) :
             HasLongLabel(NamesOf(input.message)[i])) => wire.err = "LabelTooLong"
       /\ (\E i \in 1..Len(NamesOf(input.message)) :
             EncodedLen(NamesOf(input.message)[i]) > 255) => wire.err = "NameTooLong"

\* C4 amended: a name with a label over 63 bytes gets label-too-long, also
\* when its encoding is over 255 bytes; a name with no such label and an
\* encoding over 255 bytes gets name-too-long; any other name is encoded
\* (63-byte labels and 255-byte encodings included); on failure no bytes are
\* returned; serialize fails with the error of the first name, questions
\* before answers, that encodeLabelSequence rejects.
C4_LengthLimitsInOrder ==
  /\ stage = "encoded" =>
       /\ wire.err = NameError(input.labels)
       /\ wire.err # "nil" => wire.bytes = << >>
       /\ wire.err = "nil" => Len(wire.bytes) = EncodedLen(input.labels)
  /\ stage = "serialized" => wire.err = FirstError(NamesOf(input.message))

C4_Witness ==
  /\ stage = "encoded"
  /\ input.labels = Name255
  /\ wire.err = "nil"
  /\ Len(wire.bytes) = 255

\* C5: the response built for a decoded request has QR=1 and the request's
\* QDCOUNT; its RCODE is 0 when the request's OPCODE is 0 and 4 for every
\* other OPCODE, whatever RCODE bits the request carried.
C5_ResponseHeader ==
  stage = "responded" =>
    /\ FieldQR(wire.header) = 1
    /\ FieldQDCOUNT(wire.header) = FieldQDCOUNT(decoded.message.header)
    /\ FieldRCODE(wire.header)
         = IF FieldOPCODE(decoded.message.header) = 0 THEN 0 ELSE 4

C5_Witness ==
  /\ stage = "responded"
  /\ FieldOPCODE(decoded.message.header) = 15
  /\ FieldRCODE(decoded.message.header) = 15
  /\ FieldQR(decoded.message.header) = 0
  /\ FieldRCODE(wire.header) = 4
  /\ FieldQR(wire.header) = 1

\* C6: the response has as many questions as the request, the i-th with the
\* name of the request's i-th question, type A and class IN, whatever type
\* and class the request's question carried.
C6_ResponseQuestions ==
  stage = "responded" =>
    /\ Len(wire.question) = Len(decoded.message.question)
    /\ \A i \in 1..Len(wire.question) :
         /\ wire.question[i].QNAME = decoded.message.question[i].QNAME
         /\ wire.question[i].QTYPE = << 0, 1 >>
         /\ wire.question[i].QCLASS = << 0, 1 >>

C6_Witness ==
  /\ stage = "responded"
  /\ Len(decoded.message.question) = 2
  /\ decoded.message.question[2].QTYPE = << 0, 28 >>
  /\ wire.question[2].QNAME = NameA
  /\ wire.question[2].QTYPE = << 0, 1 >>

RECURSIVE Concat(_)
Concat(ss) == IF ss = << >> THEN << >> ELSE Head(ss) \o Concat(Tail(ss))

\* main got past forwardResolve or addStaticAnswer in its last iteration
Resolved == result \in { "sent", "serialize failed", "send failed" }

\* the wire image of a response with answers as
ResponseWire(h, qs, as) ==
  h \o Concat([i \in 1..Len(qs) |->
                 WireName(qs[i].QNAME) \o qs[i].QTYPE \o qs[i].QCLASS])
    \o Concat([i \in 1..Len(as) |->
                 WireName(as[i].NAME) \o as[i].TYPE \o as[i].CLASS \o as[i].TTL
                 \o as[i].RDLENGTH \o as[i].RDATA])

\* C7: without a resolver, the response to a request with n questions has n
\* answers and ANCOUNT=n, the i-th answer with the name of the i-th question,
\* type A, class IN, TTL 60, RDLENGTH 4 and RDATA 8.8.8.8, and that is what
\* the datagram sent to the client holds.
C7_StaticAnswers ==
  (~resolverConn /\ Resolved) =>
    /\ Len(response.answer) = Len(request.question)
    /\ FieldANCOUNT(response.header) = Len(request.question)
    /\ \A i \in 1..Len(response.answer) :
         response.answer[i]
           = [NAME |-> request.question[i].QNAME, TYPE |-> << 0, 1 >>,
              CLASS |-> << 0, 1 >>, TTL |-> << 0, 0, 0, 60 >>,
              RDLENGTH |-> << 0, 4 >>, RDATA |-> << 8, 8, 8, 8 >>]
    /\ result = "sent" =>
         outbox = ResponseWire(response.header, response.question, response.answer)

C7_Witness ==
  /\ ~resolverConn
  /\ result = "sent"
  /\ Len(request.question) = 2
  /\ request.question[2].QNAME = NameAD
  /\ Len(response.answer) = 2
  /\ response.answer[2].NAME = NameAD
  /\ FieldANCOUNT(SubSeq(outbox, 1, 12)) = 2

\* the answer section deserialize reads from a datagram of the resolver
AnswersOf(frame) ==
  deserialize([len |-> Len(frame),
               arr |-> frame \o Zeros(BufSize - Len(frame))]).message.answer

C9_QueryHeader ==
  \A i \in 1..Len(sentQueries) :
    LET h == SubSeq(sentQueries[i], 1, 12)
    IN /\ FieldQR(h) = 0 /\ FieldOPCODE(h) = 0 /\ FieldAA(h) = 0
       /\ FieldTC(h) = 0 /\ FieldRD(h) = 1 /\ FieldRA(h) = 0
       /\ FieldZ(h) = 0 /\ FieldRCODE(h) = 0
       /\ FieldQDCOUNT(h) = 1 /\ FieldANCOUNT(h) = 0
       /\ FieldNSCOUNT(h) = 0 /\ FieldARCOUNT(h) = 0

C9_Witness ==
  /\ pc = "await"
  /\ Len(sentQueries) = 1
  /\ FieldOPCODE(request.header) = 15
  /\ FieldRD(request.header) = 0
  /\ FieldQR(request.header) = 1
  /\ FieldANCOUNT(request.header) = 1
  /\ FieldARCOUNT(request.header) = 1
  /\ FieldRD(SubSeq(sentQueries[1], 1, 12)) = 1

ForwardErrors ==
  { "forward: serialize failed", "forward: write failed",
    "forward: read failed", "forward: parse failed" }

\* C10: when forwardResolve stops before the last question's reply was
\* taken (serializing, writing, reading or decoding failed for question k),
\* it has reported an error to main, no query for a later question was
\* written, and no datagram was sent to the client.
C10_AllOrNothing ==
  (resolverConn /\ pc # "await" /\ Len(repliesRead) < Len(response.question)) =>
    /\ result \in ForwardErrors
    /\ pc # "crashed"
    /\ outbox = << >>
    /\ Len(sentQueries) <= Len(repliesRead) + 1

\* C11: no inbound datagram of at most 512 bytes, however malformed or
\* truncated, crashes the server: after each one, answered or dropped, main
\* is back reading, here or at the resolver socket.
C11_NeverCrashes == pc # "crashed"

\* C12: deserialize fails with the malformed-header error and returns no
\* message for every frame of fewer than 12 bytes, and never gives that
\* error for a frame of 12 bytes or more.
C12_HeaderLength ==
  stage \in { "responded", "rejected" } =>
    /\ Len(input.frame) < 12 =>
         /\ decoded.err = "MalformedHeader"
         /\ decoded.message = NilMessage
    /\ Len(input.frame) >= 12 => decoded.err # "MalformedHeader"

C12_Witness ==
  /\ stage = "rejected"
  /\ Len(input.frame) = 11
  /\ decoded.err = "MalformedHeader"
  /\ decoded.message = NilMessage

\* what deserialize gives for the datagram main last read when nothing lies
\* behind the datagram's last byte: "panic" exactly when a label, a field or
\* an RDATA extends past the end of the datagram
InFrameOnly == deserialize(Exact(SubSeq(buf, 1, size)))

\* C13: when a label, a fixed-width field or an RDATA of the datagram main
\* read extends past the datagram's end, deserialize returns an error to
\* main, which drops the datagram: it neither panics nor succeeds with the
\* bytes that lie behind the datagram in the receive buffer.
C13_TruncatedFrameError ==
  (served > 0 /\ InFrameOnly.err = "panic") => result = "parse failed"

\* C14: in every datagram sent to a client QDCOUNT and ANCOUNT are the
\* numbers of questions and answers serialized, nothing follows the answers,
\* and NSCOUNT and ARCOUNT are 0.
C14_CountsMatchSections ==
  result = "sent" =>
    LET h == SubSeq(outbox, 1, 12)
    IN /\ FieldQDCOUNT(h) = Len(response.question)
       /\ FieldANCOUNT(h) = Len(response.answer)
       /\ outbox = ResponseWire(h, response.question, response.answer)
       /\ FieldNSCOUNT(h) = 0
       /\ FieldARCOUNT(h) = 0

\* C15: the header createResponseMessage builds has QR=1, AA=0, TC=0, RA=0
\* and Z=0 for every request header.
C15_ClearedFlags ==
  stage = "responded" =>
    /\ FieldQR(wire.header) = 1
    /\ FieldAA(wire.header) = 0
    /\ FieldTC(wire.header) = 0
    /\ FieldRA(wire.header) = 0
    /\ FieldZ(wire.header) = 0

\* main decoded the datagram it last read, and the names of its questions
\* respect the label limits
Answerable ==
  /\ served > 0
  /\ result \notin { "parse failed", "panic" }
  /\ \A i \in 1..Len(request.question) : ValidName(request.question[i].QNAME)

\* C16 as stated: without a resolver, whenever main is back at the read the
\* datagram it last read, if it decoded and its names respect the limits,
\* has been answered with a datagram sent to its source.
C16_OneResponsePerRequest ==
  (~resolverConn /\ Answerable) =>
    /\ result = "sent"
    /\ outbox # << >>
    /\ dest = source

\* C16 amended: without a resolver, whenever main is back at the read it has
\* called WriteToUDP once for the datagram it last read, if that decoded and
\* its names respect the limits, with the serialized response and that
\* datagram's source; when the write failed no datagram went out.
C16_OneWritePerRequest ==
  (~resolverConn /\ Answerable) =>
    /\ pc \in { "read", "stopped" }
    /\ result \in { "sent", "send failed" }
    /\ Len(response.question) = Len(request.question)
    /\ result = "sent" =>
         /\ dest = source
         /\ outbox = ResponseWire(response.header, response.question,
                                  response.answer)
    /\ result = "send failed" => (outbox = << >> /\ dest = "none")

C16_Witness ==
  /\ ~resolverConn
  /\ served = 2
  /\ pc = "read"
  /\ result = "sent"
  /\ source = "client2"
  /\ dest = "client2"
  /\ Len(request.question) = 1
  /\ FieldANCOUNT(SubSeq(outbox, 1, 12)) = 1

\* C17: no datagram sent to a client is longer than 512 bytes.
C17_ResponseFits == Len(outbox) <= BufSize

\* C18: a length byte of 192 or more starts a 2-byte pointer that ends the
\* name: decodeLabels records no literal label at that byte's offset, and
\* when it returns a name the cursor is 2 bytes past that offset.
C18_HighBitsArePointers ==
  (stage = "resolved" /\ wire.err = "nil") =>
    LET at == wire.head + (EncodedLen(input.prefix) - 1)
    IN /\ input.frame[at + 1] >= 192
       /\ decoded.err \in { "nil", "InvalidLabelReference" }
       /\ at \notin DOMAIN decoded.cache.positionMap
       /\ decoded.err = "nil" => decoded.head = at + 2

\* C19: a frame whose last name is or ends in a pointer to an offset with no
\* label recorded makes deserialize return the invalid-label-reference error
\* and no message.
C19_InvalidReference ==
  (stage \in { "responded", "rejected" } /\ input.frame \in InvalidRefFrames) =>
    /\ decoded.err = "InvalidLabelReference"
    /\ decoded.message = NilMessage

\* every label in cache lies, behind its length byte, at its offset in bytes
RecordedIn(cache, bytes) ==
  \A p \in DOMAIN cache.positionMap :
    LET label == cache.positionMap[p]
    IN /\ p + 1 + Len(label) <= Len(bytes)
       /\ bytes[p + 1] = Len(label)
       /\ SubSeq(bytes, p + 2, p + 1 + Len(label)) = label

\* label lies, behind its length byte, somewhere in bytes
LiesIn(label, bytes) ==
  \E p \in HeaderLen..(Len(bytes) - 1) :
    /\ p + 1 + Len(label) <= Len(bytes)
    /\ bytes[p + 1] = Len(label)
    /\ SubSeq(bytes, p + 2, p + 1 + Len(label)) = label

CachedLabels(cache) == { cache.positionMap[p] : p \in DOMAIN cache.positionMap }

\* C20: the cache of the request main decoded holds only labels of the
\* datagram it was decoded from, at their offsets in that datagram, whatever
\* was decoded before, and every label of the request's names is one of
\* them; every label of a name in the answers taken from the resolver's
\* replies lies in one of the replies read for this request.
C20_FreshCachePerFrame ==
  /\ RecordedIn(request.cache, SubSeq(buf, 1, size))
  /\ \A i \in 1..Len(request.question) :
       \A k \in 1..Len(request.question[i].QNAME) :
         request.question[i].QNAME[k] \in CachedLabels(request.cache)
  /\ \A i \in 1..Len(request.answer) :
       \A k \in 1..Len(request.answer[i].NAME) :
         request.answer[i].NAME[k] \in CachedLabels(request.cache)
  /\ resolverConn =>
       \A i \in 1..Len(answers) :
         \A k \in 1..Len(answers[i].NAME) :
           \E r \in 1..Len(repliesRead) : LiesIn(answers[i].NAME[k], repliesRead[r])

C20_Witness ==
  /\ served = 2
  /\ resolverConn
  /\ result = "sent"
  /\ Len(request.question) = 2
  /\ request.question[2].QNAME = NameBCD
  /\ DOMAIN request.cache.positionMap = { 12, 15 }
  /\ buf[23] = 192
  /\ Len(answers) = 2
  /\ answers[2].NAME = NameBCD

RECURSIVE WalkOffsets(_, _)
\* the offsets of labels that follow one another from offset p on
WalkOffsets(p, labels) ==
  IF labels = << >> THEN << >>
  ELSE << p >> \o WalkOffsets(p + Len(Head(labels)) + 1, Tail(labels))

\* resolving a pointer (length byte 192) at offset at to offset p ends, with
\* an error exactly when no label is cached at p; the labels it returns are
\* those cached at strictly increasing offsets from p on, each one right
\* behind the one before, up to the first offset with no label, and each of
\* these offsets is smaller than at
WalksBackwardLabels ==
  LET at == wire.head + (EncodedLen(input.prefix) - 1)
  IN (/\ stage = "resolved"
      /\ wire.err = "nil"
      /\ decoded.err # "panic"
      /\ input.frame[at + 1] = 192) =>
       LET p == input.frame[at + 2]
           map == decoded.cache.positionMap
           got == SubSeq(decoded.labels, Len(input.prefix) + 1, Len(decoded.labels))
           offs == WalkOffsets(p, got)
       IN /\ decoded.err = "InvalidLabelReference" <=> p \notin DOMAIN map
          /\ p \notin DOMAIN map => got = << >>
          /\ p \in DOMAIN map => got # << >>
          /\ Len(got) <= Cardinality(DOMAIN map)
          /\ \A i \in 1..Len(got) :
               /\ offs[i] \in DOMAIN map
               /\ map[offs[i]] = got[i]
               /\ offs[i] < at
               /\ i > 1 => offs[i - 1] < offs[i]
          /\ got # << >> =>
               (offs[Len(got)] + Len(got[Len(got)]) + 1) \notin DOMAIN map

\* a pointer to its own offset, and one to a label later in the frame, gets
\* the error and no label
NoForwardReference ==
  (stage = "resolved" /\ input.target = << >>) =>
    (decoded.err = "InvalidLabelReference" /\ decoded.labels = input.prefix)

\* C21: allSubsequentLabels always ends, visits cache offsets in strictly
\* increasing order and returns only labels recorded at offsets smaller than
\* that of the pointer being resolved; a pointer never resolves to itself
\* or to a label that appears later in the frame.
C21_PointerWalk == WalksBackwardLabels /\ NoForwardReference

\* a pointer to the first of three labels, behind a literal label
C21_Witness ==
  /\ stage = "resolved"
  /\ input.target = NameGoogleCom
  /\ input.j = 1
  /\ input.prefix = << << 119, 119, 119 >> >>
  /\ input.pj = 12
  /\ decoded.err = "nil"
  /\ decoded.labels = << << 119, 119, 119 >> >> \o NameGoogleCom
  /\ DOMAIN decoded.cache.positionMap = { 12, 19, 28 }

\* C23: a pointer (length byte 192) to the j-th label, at offset p, of the
\* name of the question decoded just before decodes to the labels j..k of
\* that question's full name, behind the literal labels that precede the
\* pointer, also when that question's name itself ended in a pointer.
C23_SuffixOfFullName ==
  LET at == wire.head + (EncodedLen(input.prefix) - 1)
  IN (/\ stage = "resolved"
      /\ wire.err = "nil"
      /\ Len(wire.items) >= 1
      /\ input.frame[at + 1] = 192
      /\ input.frame[at + 2] = input.pj
      /\ input.pj \in DOMAIN wire.cache.positionMap) =>
       LET full == wire.items[Len(wire.items)].QNAME
       IN /\ decoded.err = "nil"
          /\ decoded.labels = input.prefix \o SubSeq(full, input.j, Len(full))

\* C22: with a resolver, when a response was sent to the client, the i-th
\* reply whose answers went into it is a reply to the i-th datagram written
\* to the resolver for this request: it carries that datagram's ID and its
\* question.
C22_RepliesMatchQueries ==
  (resolverConn /\ result = "sent") =>
    \A i \in 1..Len(repliesRead) :
      /\ FieldID(repliesRead[i]) = FieldID(sentQueries[i])
      /\ Len(repliesRead[i]) >= Len(sentQueries[i])
      /\ SubSeq(repliesRead[i], HeaderLen + 1, Len(sentQueries[i]))
           = SubSeq(sentQueries[i], HeaderLen + 1, Len(sentQueries[i]))

\* C24: the datagram sent to a client has the ID, the OPCODE and the RD bit
\* of the datagram it answers, with or without a resolver, and so never the
\* ID of a query written to the resolver or of a reply read from it when
\* that differs from the request's.
C24_EchoesRequest ==
  result = "sent" =>
    LET sent == SubSeq(outbox, 1, HeaderLen)
        asked == SubSeq(buf, 1, HeaderLen)
    IN /\ FieldID(sent) = FieldID(asked)
       /\ FieldOPCODE(sent) = FieldOPCODE(asked)
       /\ FieldRD(sent) = FieldRD(asked)
       /\ \A i \in 1..Len(sentQueries) :
            FieldID(sentQueries[i]) # FieldID(asked) =>
              FieldID(sent) # FieldID(sentQueries[i])
       /\ \A i \in 1..Len(repliesRead) :
            FieldID(repliesRead[i]) # FieldID(asked) =>
              FieldID(sent) # FieldID(repliesRead[i])

C24_Witness ==
  /\ resolverConn
  /\ result = "sent"
  /\ FieldID(buf) = 48879
  /\ FieldOPCODE(buf) = 15
  /\ FieldRD(buf) = 0
  /\ Len(repliesRead) = 1
  /\ FieldID(sentQueries[1]) = 4660
  /\ FieldID(repliesRead[1]) = 4660
  /\ FieldID(outbox) = 48879
  /\ FieldOPCODE(outbox) = 15
  /\ FieldRD(outbox) = 0
  /\ FieldANCOUNT(outbox) = 1

\* C25: when serialize succeeds, the length it computes beforehand is the
\* length of what it returns, a question counting for the length of its
\* encoded name plus 4 and a resource record for the length of its encoded
\* name plus 10 plus the length of its RDATA.
C25_PresizedLength ==
  (stage = "serialized" /\ wire.err = "nil") =>
    /\ totalLen(input.message) = Len(wire.bytes)
    /\ \A i \in 1..Len(input.message.question) :
         questionEntryLen(input.message.question[i])
           = EncodedLen(input.message.question[i].QNAME) + 4
    /\ \A i \in 1..Len(input.message.answer) :
         rrEntryLen(input.message.answer[i])
           = EncodedLen(input.message.answer[i].NAME) + 10
             + Len(input.message.answer[i].RDATA)

====
